---- MODULE Spec2Model ----
(***************************************************************************)
(* Model of icesat2_toolkit/io/ATL06.py: read_granule, find_beams and      *)
(* read_beam reading one ATL06 granule through h5py file handles.           *)
(*                                                                         *)
(* A granule is a tree of HDF5 nodes addressed by paths (sequences of      *)
(* names).  The nested python dictionaries the readers return are         *)
(* modelled as sets of pairs << key path, entry >>, so that                *)
(* IS2_atl06_mds[a][b][c] is the entry paired with the path <<a, b, c>>.   *)
(***************************************************************************)
EXTENDS Integers, Sequences, FiniteSets, TLC

\* ------------------------------------------------------------------------
\* Bounds of the model
\* ------------------------------------------------------------------------
\* largest number of beam-like top-level groups in a modelled granule
MaxTop == 2

\* ------------------------------------------------------------------------
\* Names fixed by the source
\* ------------------------------------------------------------------------
\* the five subgroups pre-allocated under land_ice_segments
FixedSubgroups ==
    {"bias_correction", "dem", "fit_statistics", "geophysical", "ground_track"}

\* attribute names dropped by every attribute copy
ReservedAttrs == {"DIMENSION_LIST", "CLASS", "NAME"}

\* the ancillary_data variables read by name
ancillary_keys ==
    << "atlas_sdp_gps_epoch", "data_end_utc", "data_start_utc",
       "end_cycle", "end_geoseg", "end_gpssow", "end_gpsweek", "end_orbit",
       "end_region", "end_rgt", "granule_end_utc", "granule_start_utc",
       "release", "start_cycle", "start_geoseg", "start_gpssow",
       "start_gpsweek", "start_orbit", "start_region", "start_rgt",
       "version" >>

Range(s) == {s[i] : i \in DOMAIN s}

\* the names in ancillary_keys
AncillaryKeySet == Range(ancillary_keys)

\* ------------------------------------------------------------------------
\* Strings as characters, and the beam pattern
\* ------------------------------------------------------------------------
\* top-level group names a modelled granule may hold besides the fixed ones
TopNames == {"gt1l", "gt2r", "gt1x"}

\* the characters of a top-level name
Chars(k) ==
    CASE k = "gt1l" -> << "g", "t", "1", "l" >>
      [] k = "gt2r" -> << "g", "t", "2", "r" >>
      [] k = "gt1x" -> << "g", "t", "1", "x" >>
      [] k = "orbit_info" ->
            << "o", "r", "b", "i", "t", "_", "i", "n", "f", "o" >>
      [] k = "quality_assessment" ->
            << "q", "u", "a", "l", "i", "t", "y", "_", "a", "s", "s",
               "e", "s", "s", "m", "e", "n", "t" >>
      [] k = "ancillary_data" ->
            << "a", "n", "c", "i", "l", "l", "a", "r", "y", "_", "d",
               "a", "t", "a" >>

Digits == {"0", "1", "2", "3", "4", "5", "6", "7", "8", "9"}

\* re.match(r'gt\d[lr]', k): the pattern anchored at the start of k only
ReMatch(k) ==
    LET c == Chars(k)
    IN  /\ Len(c) >= 4
        /\ c[1] = "g"
        /\ c[2] = "t"
        /\ c[3] \in Digits
        /\ c[4] \in {"l", "r"}

\* ------------------------------------------------------------------------
\* HDF5 nodes and the granules the model reads
\* ------------------------------------------------------------------------
\* attributes carried by the datasets, the groups and the root of a granule
DatasetAttrs == [units |-> "meters", DIMENSION_LIST |-> "ref", CLASS |-> "scale"]
GroupAttrs == [Description |-> "text", NAME |-> "dim"]
RootAttrs == [title |-> "ATL06", CLASS |-> "root"]

Group == [kind |-> "group", data |-> 0]
Dataset(d) == [kind |-> "dataset", data |-> d]

\* a function from the first components of a set of pairs to the second
MapOf(S) == [p \in {e[1] : e \in S} |-> (CHOOSE e \in S : e[1] = p)[2]]

\* number distinguishing the data of one beam from another's
BeamNo(k) ==
    CASE k = "gt1l" -> 1
      [] k = "gt2r" -> 2
      [] k = "gt1x" -> 3
      [] OTHER -> 4

\* shapes of one beam group: complete, with the optional groups but
\* without the dem subgroup, without segment_id, without
\* land_ice_segments, and with a subgroup the reader does not know
BeamShapes == {"full", "optional", "noseg", "nolis", "extra"}

LandIce(k, subs, withSeg) ==
    LET lis == << k, "land_ice_segments" >>
        b == 10 * BeamNo(k)
    IN  { << lis, Group >>,
          << Append(lis, "h_li"), Dataset(b + 1) >> }
        \cup (IF withSeg
              THEN { << Append(lis, "segment_id"), Dataset(b + 2) >> }
              ELSE {})
        \cup { << Append(lis, s), Group >> : s \in subs }
        \cup { << lis \o << s, "value" >>, Dataset(b + 3) >> : s \in subs }

OptionalGroups(k) ==
    LET b == 10 * BeamNo(k)
    IN  { << << k, "residual_histogram" >>, Group >>,
          << << k, "residual_histogram", "count" >>, Dataset(b + 4) >>,
          << << k, "segment_quality" >>, Group >>,
          << << k, "segment_quality", "segment_id" >>, Dataset(b + 5) >>,
          << << k, "segment_quality", "signal_selection_status" >>, Group >>,
          << << k, "segment_quality", "signal_selection_status",
                "signal_selection_status_all" >>, Dataset(b + 6) >> }

BeamNodes(k, shape) ==
    { << << k >>, Group >> } \cup
    CASE shape = "full" -> LandIce(k, FixedSubgroups, TRUE)
      [] shape = "optional" ->
            LandIce(k, FixedSubgroups \ {"dem"}, TRUE) \cup OptionalGroups(k)
      [] shape = "noseg" -> LandIce(k, {"geophysical"}, FALSE)
      [] shape = "nolis" -> {}
      [] shape = "extra" ->
            LandIce(k, {"dem", "other"}, TRUE)

\* the groups every ATL06 granule holds besides its beams
OrbitInfo ==
    { << << "orbit_info" >>, Group >>,
      << << "orbit_info", "sc_orient" >>, Dataset(91) >>,
      << << "orbit_info", "rgt" >>, Dataset(92) >> }

QualityAssessment ==
    { << << "quality_assessment" >>, Group >>,
      << << "quality_assessment", "qa_granule_pass_fail" >>, Dataset(93) >>,
      << << "quality_assessment", "gt1l" >>, Group >>,
      << << "quality_assessment", "gt1l", "signal_selection_source_fraction_0" >>,
         Dataset(94) >> }

AncillaryData ==
    { << << "ancillary_data" >>, Group >>,
      << << "ancillary_data", "land_ice" >>, Group >>,
      << << "ancillary_data", "land_ice", "dt_hist" >>, Dataset(95) >> }
    \cup { << << "ancillary_data", ancillary_keys[i] >>, Dataset(100 + i) >> :
             i \in DOMAIN ancillary_keys }

\* whether the granule holds orbit_info: a granule cut down to its beams
\* does not
CommonNodes(withOrbit) ==
    QualityAssessment \cup AncillaryData
    \cup (IF withOrbit THEN OrbitInfo ELSE {})

CommonOrder(withOrbit) ==
    << "ancillary_data" >>
    \o (IF withOrbit THEN << "orbit_info" >> ELSE << >>)
    \o << "quality_assessment" >>

\* sequences without repetition of at most n names of S
InjSeqs(S, n) ==
    { s \in UNION { [1..m -> S] : m \in 0..n } :
        Cardinality(Range(s)) = Len(s) }

\* the nodes S as a tree: each path's node, the paths of the groups, and
\* the names of the datasets and of the groups each group holds
Tree(S) ==
    LET nodes == MapOf(S)
        groups == { p \in DOMAIN nodes : nodes[p].kind = "group" }
        under(p, kind) ==
            { q[Len(q)] : q \in { r \in DOMAIN nodes :
                                    /\ Len(r) = Len(p) + 1
                                    /\ SubSeq(r, 1, Len(p)) = p
                                    /\ nodes[r].kind = kind } }
    IN  [ nodes |-> nodes,
          groups |-> groups,
          datasets |-> [ p \in groups |-> under(p, "dataset") ],
          subgroups |-> [ p \in groups |-> under(p, "group") ] ]

\* the modelled layouts of a granule: the shape each beam-like group has
\* when the granule holds it, and whether the granule holds orbit_info
Layouts ==
    { [gt1l |-> "full", gt2r |-> "optional", gt1x |-> "full", orbit |-> TRUE],
      [gt1l |-> "optional", gt2r |-> "noseg", gt1x |-> "nolis", orbit |-> TRUE],
      [gt1l |-> "nolis", gt2r |-> "full", gt1x |-> "optional", orbit |-> FALSE],
      [gt1l |-> "extra", gt2r |-> "full", gt1x |-> "noseg", orbit |-> TRUE] }

\* the granule with beam groups tops (in the order h5py enumerates them),
\* laid out as layout says: the order of its top-level groups and the tree
\* of its nodes
MakeFile(tops, layout) ==
    [ order |-> tops \o CommonOrder(layout.orbit),
      tree |-> Tree((UNION { BeamNodes(tops[i], layout[tops[i]]) :
                               i \in DOMAIN tops })
                    \cup CommonNodes(layout.orbit)) ]

Granules ==
    { MakeFile(tops, layout) :
        tops \in InjSeqs(TopNames, MaxTop),
        layout \in Layouts }

\* ------------------------------------------------------------------------
\* h5py access to a granule
\* ------------------------------------------------------------------------
\* the node at path p
Node(f, p) == f.tree.nodes[p]

\* names of the datasets and of the groups that group p holds; none when
\* the granule has no group p
DatasetsOf(f, p) == IF p \in f.tree.groups THEN f.tree.datasets[p] ELSE {}
GroupsOf(f, p) == IF p \in f.tree.groups THEN f.tree.subgroups[p] ELSE {}

\* names of the members of group p: what p.keys() / p.items() enumerate
Members(f, p) == DatasetsOf(f, p) \cup GroupsOf(f, p)

\* whether fileID[p[1]][p[2]]... exists
Has(f, p) ==
    IF Len(p) = 1 THEN p[1] \in Range(f.order)
    ELSE p[Len(p)] \in Members(f, SubSeq(p, 1, Len(p) - 1))

\* node.attrs of the node at p
AttrsOf(f, p) ==
    IF Node(f, p).kind = "dataset" THEN DatasetAttrs ELSE GroupAttrs

\* variant: every attribute is copied
KeptAttrs_All(a) == DOMAIN a

\* node.attrs.items() without the reserved names
KeptAttrs(a) == { n \in DOMAIN a : n \notin ReservedAttrs }

\* ------------------------------------------------------------------------
\* Entries of the returned dictionaries
\* ------------------------------------------------------------------------
Dict == [kind |-> "dict"]
Arr(d) == [kind |-> "array", data |-> d]
Att(v) == [kind |-> "attr", value |-> v]

\* val[:] : the whole dataset at p as an array
ReadAll(f, p) == Arr(Node(f, p).data)

\* for att_name,att_val in node.attrs.items(): dst[att_name] = att_val,
\* skipping the reserved names
CopyAttrs(f, p, dst) ==
    { << Append(dst, a), Att(AttrsOf(f, p)[a]) >> :
        a \in KeptAttrs(AttrsOf(f, p)) }


\* ------------------------------------------------------------------------
\* Beam discovery
\* ------------------------------------------------------------------------
\* the try / except KeyError probe of fileID[gtx]['land_ice_segments']
\* ['segment_id']
HasSegmentId(f, gtx) == Has(f, << gtx, "land_ice_segments", "segment_id" >>)

\* read_granule: the valid beams, in the order of fileID.keys()
GranuleBeams(f) ==
    SelectSeq(f.order, LAMBDA k : ReMatch(k) /\ HasSegmentId(f, k))

\* variant: every group named like a beam is taken, without the probe
FindBeamsList_NoProbe(f) == SelectSeq(f.order, LAMBDA k : ReMatch(k))

\* find_beams: the valid beams, in the order of fileID.keys()
FindBeamsList(f) ==
    SelectSeq(f.order, LAMBDA k : ReMatch(k) /\ HasSegmentId(f, k))

\* ------------------------------------------------------------------------
\* read_granule: the variables of one beam
\* ------------------------------------------------------------------------
\* variant: the five subgroups are not pre-allocated
GranuleLandIceVars_NoPrealloc(f, gtx) ==
    LET lis == << gtx, "land_ice_segments" >>
    IN  { << << gtx >>, Dict >>, << lis, Dict >> }
        \cup { << Append(lis, key), ReadAll(f, Append(lis, key)) >> :
                 key \in DatasetsOf(f, lis) }
        \cup { << Append(lis, key), Dict >> : key \in GroupsOf(f, lis) }
        \cup UNION { { << lis \o << key, k >>, ReadAll(f, lis \o << key, k >>) >> :
                         k \in Members(f, Append(lis, key)) } :
                     key \in GroupsOf(f, lis) }

\* the land_ice_segments group of beam gtx copied into IS2_atl06_mds
GranuleLandIceVars(f, gtx) ==
    LET lis == << gtx, "land_ice_segments" >>
    IN  { << << gtx >>, Dict >>, << lis, Dict >> }
        \cup { << Append(lis, s), Dict >> : s \in FixedSubgroups }
        \cup { << Append(lis, key), ReadAll(f, Append(lis, key)) >> :
                 key \in DatasetsOf(f, lis) }
        \cup UNION { { << lis \o << key, k >>, ReadAll(f, lis \o << key, k >>) >> :
                         k \in Members(f, Append(lis, key)) } :
                     key \in GroupsOf(f, lis) }

\* storing a variable of a subgroup that was not pre-allocated raises
\* KeyError
GranuleLandIceFails(f, gtx) ==
    LET lis == << gtx, "land_ice_segments" >>
    IN  \E key \in GroupsOf(f, lis) :
            /\ key \notin FixedSubgroups
            /\ Members(f, Append(lis, key)) # {}

\* the residual_histogram group of beam gtx
GranuleHistogramVars(f, gtx) ==
    LET rh == << gtx, "residual_histogram" >>
    IN  { << rh, Dict >> }
        \cup { << Append(rh, key), ReadAll(f, Append(rh, key)) >> :
                 key \in Members(f, rh) }

GranuleHistogramFails(f, gtx) == ~ Has(f, << gtx, "residual_histogram" >>)

\* the segment_quality group of beam gtx
GranuleQualityVars(f, gtx) ==
    LET sq == << gtx, "segment_quality" >>
    IN  { << sq, Dict >>, << Append(sq, "signal_selection_status"), Dict >> }
        \cup { << Append(sq, key), ReadAll(f, Append(sq, key)) >> :
                 key \in DatasetsOf(f, sq) }
        \cup UNION { { << sq \o << key, k >>, ReadAll(f, sq \o << key, k >>) >> :
                         k \in Members(f, Append(sq, key)) } :
                     key \in GroupsOf(f, sq) }

GranuleQualityFails(f, gtx) ==
    LET sq == << gtx, "segment_quality" >>
    IN  \/ ~ Has(f, sq)
        \/ \E key \in GroupsOf(f, sq) :
              /\ key # "signal_selection_status"
              /\ Members(f, Append(sq, key)) # {}

\* ------------------------------------------------------------------------
\* read_granule: the attributes of one beam
\* ------------------------------------------------------------------------
GranuleLandIceAttrs(f, gtx) ==
    LET lis == << gtx, "land_ice_segments" >>
    IN  { << << gtx >>, Dict >>, << lis, Dict >> }
        \cup { << Append(lis, s), Dict >> : s \in FixedSubgroups }
        \cup CopyAttrs(f, << gtx >>, << gtx >>)
        \cup UNION { { << Append(lis, key), Dict >> }
                     \cup CopyAttrs(f, Append(lis, key), Append(lis, key)) :
                     key \in Members(f, lis) }
        \cup UNION { UNION { { << lis \o << key, k >>, Dict >> }
                             \cup CopyAttrs(f, lis \o << key, k >>,
                                            lis \o << key, k >>) :
                             k \in Members(f, Append(lis, key)) } :
                     key \in GroupsOf(f, lis) }

GranuleHistogramAttrs(f, gtx) ==
    LET rh == << gtx, "residual_histogram" >>
    IN  { << rh, Dict >> }
        \cup UNION { { << Append(rh, key), Dict >> }
                     \cup CopyAttrs(f, Append(rh, key), Append(rh, key)) :
                     key \in Members(f, rh) }

GranuleQualityAttrs(f, gtx) ==
    LET sq == << gtx, "segment_quality" >>
    IN  { << sq, Dict >>, << Append(sq, "signal_selection_status"), Dict >> }
        \cup UNION { { << Append(sq, key), Dict >> }
                     \cup CopyAttrs(f, Append(sq, key), Append(sq, key)) :
                     key \in Members(f, sq) }
        \cup UNION { UNION { { << sq \o << key, k >>, Dict >> }
                             \cup CopyAttrs(f, sq \o << key, k >>,
                                            sq \o << key, k >>) :
                             k \in Members(f, Append(sq, key)) } :
                     key \in GroupsOf(f, sq) }

\* ------------------------------------------------------------------------
\* read_granule: the groups of the whole granule
\* ------------------------------------------------------------------------
OrbitInfoVars(f) ==
    { << << "orbit_info" >>, Dict >> }
    \cup { << << "orbit_info", key >>, ReadAll(f, << "orbit_info", key >>) >> :
             key \in Members(f, << "orbit_info" >>) }

QualityAssessmentVars(f) ==
    LET qa == << "quality_assessment" >>
    IN  { << qa, Dict >> }
        \cup { << Append(qa, key), ReadAll(f, Append(qa, key)) >> :
                 key \in DatasetsOf(f, qa) }
        \cup { << Append(qa, key), Dict >> : key \in GroupsOf(f, qa) }
        \cup UNION { { << qa \o << key, k >>, ReadAll(f, qa \o << key, k >>) >> :
                         k \in Members(f, Append(qa, key)) } :
                     key \in GroupsOf(f, qa) }

AncillaryVars(f) ==
    { << << "ancillary_data" >>, Dict >>,
      << << "ancillary_data", "land_ice" >>, Dict >> }
    \cup { << << "ancillary_data", key >>,
              ReadAll(f, << "ancillary_data", key >>) >> :
             key \in AncillaryKeySet }
    \cup { << << "ancillary_data", "land_ice", key >>,
              ReadAll(f, << "ancillary_data", "land_ice", key >>) >> :
             key \in Members(f, << "ancillary_data", "land_ice" >>) }

\* the dictionaries of ancillary_data and its land_ice subgroup are
\* created in IS2_atl06_attrs whether or not ATTRIBUTES is set
AncillaryAttrs(f, ATTRIBUTES) ==
    { << << "ancillary_data" >>, Dict >>,
      << << "ancillary_data", "land_ice" >>, Dict >> }
    \cup (IF ATTRIBUTES
          THEN UNION { { << << "ancillary_data", key >>, Dict >> }
                       \cup CopyAttrs(f, << "ancillary_data", key >>,
                                      << "ancillary_data", key >>) :
                       key \in AncillaryKeySet }
               \cup
               UNION { { << << "ancillary_data", "land_ice", key >>, Dict >> }
                       \cup CopyAttrs(f, << "ancillary_data", "land_ice", key >>,
                                      << "ancillary_data", "land_ice", key >>) :
                       key \in Members(f, << "ancillary_data", "land_ice" >>) }
          ELSE {})

\* IS2_atl06_attrs[att_name] = att_name: the name is stored, not the value
GlobalAttrs(f) ==
    { << << a >>, Att(a) >> : a \in KeptAttrs(RootAttrs) }

OrbitInfoAttrs(f) ==
    LET oi == << "orbit_info" >>
    IN  { << oi, Dict >> }
        \cup UNION { { << Append(oi, key), Dict >> }
                     \cup CopyAttrs(f, Append(oi, key), Append(oi, key)) :
                     key \in Members(f, oi) }

QualityAssessmentAttrs(f) ==
    LET qa == << "quality_assessment" >>
    IN  { << qa, Dict >> }
        \cup UNION { { << Append(qa, key), Dict >> }
                     \cup CopyAttrs(f, Append(qa, key), Append(qa, key)) :
                     key \in Members(f, qa) }
        \cup UNION { UNION { { << qa \o << key, k >>, Dict >> }
                             \cup CopyAttrs(f, qa \o << key, k >>,
                                            qa \o << key, k >>) :
                             k \in Members(f, Append(qa, key)) } :
                     key \in GroupsOf(f, qa) }

\* an absent group or variable read by name raises KeyError
CommonFails(f) ==
    \/ ~ Has(f, << "orbit_info" >>)
    \/ ~ Has(f, << "quality_assessment" >>)
    \/ ~ Has(f, << "ancillary_data" >>)
    \/ \E key \in AncillaryKeySet : ~ Has(f, << "ancillary_data", key >>)
    \/ ~ Has(f, << "ancillary_data", "land_ice" >>)

\* ------------------------------------------------------------------------
\* read_granule: the whole read
\* ------------------------------------------------------------------------
GranuleFails(f, HISTOGRAM, QUALITY) ==
    \/ \E gtx \in Range(GranuleBeams(f)) :
          \/ GranuleLandIceFails(f, gtx)
          \/ HISTOGRAM /\ GranuleHistogramFails(f, gtx)
          \/ QUALITY /\ GranuleQualityFails(f, gtx)
    \/ CommonFails(f)

GranuleVars(f, HISTOGRAM, QUALITY) ==
    ((UNION { GranuleLandIceVars(f, gtx)
                   \cup (IF HISTOGRAM THEN GranuleHistogramVars(f, gtx) ELSE {})
                   \cup (IF QUALITY THEN GranuleQualityVars(f, gtx) ELSE {}) :
                   gtx \in Range(GranuleBeams(f)) })
          \cup OrbitInfoVars(f)
          \cup QualityAssessmentVars(f)
          \cup AncillaryVars(f))

GranuleAttrs(f, ATTRIBUTES, HISTOGRAM, QUALITY) ==
    ((IF ATTRIBUTES
           THEN (UNION { GranuleLandIceAttrs(f, gtx)
                         \cup (IF HISTOGRAM
                               THEN GranuleHistogramAttrs(f, gtx) ELSE {})
                         \cup (IF QUALITY
                               THEN GranuleQualityAttrs(f, gtx) ELSE {}) :
                         gtx \in Range(GranuleBeams(f)) })
                \cup GlobalAttrs(f)
                \cup OrbitInfoAttrs(f)
                \cup QualityAssessmentAttrs(f)
           ELSE {})
          \cup AncillaryAttrs(f, ATTRIBUTES))

\* ------------------------------------------------------------------------
\* read_beam
\* ------------------------------------------------------------------------
\* beam identifiers passed to read_beam
BeamArgs == {"gt1l", "gt1x"}

\* variant: the variables of the subgroups are not copied
BeamLandIceVars_Flat(f, gtx) ==
    LET lis == << gtx, "land_ice_segments" >>
    IN  { << << gtx >>, Dict >>, << lis, Dict >> }
        \cup { << Append(lis, s), Dict >> : s \in FixedSubgroups }
        \cup { << Append(lis, key), ReadAll(f, Append(lis, key)) >> :
                 key \in DatasetsOf(f, lis) }

\* variant: the five subgroups are not pre-allocated
BeamLandIceVars_NoPrealloc(f, gtx) ==
    LET lis == << gtx, "land_ice_segments" >>
    IN  { << << gtx >>, Dict >>, << lis, Dict >> }
        \cup { << Append(lis, key), ReadAll(f, Append(lis, key)) >> :
                 key \in DatasetsOf(f, lis) }
        \cup { << Append(lis, key), Dict >> : key \in GroupsOf(f, lis) }
        \cup UNION { { << lis \o << key, k >>, ReadAll(f, lis \o << key, k >>) >> :
                         k \in Members(f, Append(lis, key)) } :
                     key \in GroupsOf(f, lis) }

\* the land_ice_segments group of beam gtx copied into IS2_atl06_mds
BeamLandIceVars(f, gtx) ==
    LET lis == << gtx, "land_ice_segments" >>
    IN  { << << gtx >>, Dict >>, << lis, Dict >> }
        \cup { << Append(lis, s), Dict >> : s \in FixedSubgroups }
        \cup { << Append(lis, key), ReadAll(f, Append(lis, key)) >> :
                 key \in DatasetsOf(f, lis) }
        \cup UNION { { << lis \o << key, k >>, ReadAll(f, lis \o << key, k >>) >> :
                         k \in Members(f, Append(lis, key)) } :
                     key \in GroupsOf(f, lis) }

\* variant: an absent beam is skipped instead of raising
BeamFails_SkipAbsent(f, gtx) ==
    LET lis == << gtx, "land_ice_segments" >>
    IN  \E key \in GroupsOf(f, lis) :
            /\ key \notin FixedSubgroups
            /\ Members(f, Append(lis, key)) # {}

\* fileID[gtx]['land_ice_segments'] raises KeyError when either level is
\* absent; so does storing a variable of a subgroup that was not
\* pre-allocated
BeamFails(f, gtx) ==
    LET lis == << gtx, "land_ice_segments" >>
    IN  \/ ~ Has(f, << gtx >>)
        \/ ~ Has(f, lis)
        \/ \E key \in GroupsOf(f, lis) :
              /\ key \notin FixedSubgroups
              /\ Members(f, Append(lis, key)) # {}

BeamLandIceAttrs(f, gtx) ==
    LET lis == << gtx, "land_ice_segments" >>
    IN  { << << gtx >>, Dict >>, << lis, Dict >> }
        \cup { << Append(lis, s), Dict >> : s \in FixedSubgroups }
        \cup CopyAttrs(f, << gtx >>, << gtx >>)
        \cup UNION { { << Append(lis, key), Dict >> }
                     \cup CopyAttrs(f, Append(lis, key), Append(lis, key)) :
                     key \in Members(f, lis) }
        \cup UNION { UNION { { << lis \o << key, k >>, Dict >> }
                             \cup CopyAttrs(f, lis \o << key, k >>,
                                            lis \o << key, k >>) :
                             k \in Members(f, Append(lis, key)) } :
                     key \in GroupsOf(f, lis) }

BeamVars(f, gtx) == BeamLandIceVars(f, gtx)

\* variant: the attributes are copied whether or not they are asked for
BeamAttrs_Always(f, gtx, ATTRIBUTES) == BeamLandIceAttrs(f, gtx)

BeamAttrs(f, gtx, ATTRIBUTES) ==
    IF ATTRIBUTES THEN BeamLandIceAttrs(f, gtx) ELSE {}

\* ------------------------------------------------------------------------
\* File handles
\* ------------------------------------------------------------------------
\* what a reader is given as FILENAME: a path, a stream of bytes, or the
\* h5py.File the caller holds
Sources == {"path", "stream", "handle"}

\* read_granule opens a stream of bytes with the same h5py.File call as a
\* path: its calls are modelled for a path and for a handle
GranuleSources == {"path", "handle"}

\* fileID.close() unless KEEP, at the end of each reader
GranuleClose(fileID, KEEP) == IF ~ KEEP THEN "closed" ELSE fileID

\* variant: the handle is never closed
FindBeamsClose_Never(fileID, KEEP) == fileID

FindBeamsClose(fileID, KEEP) == IF ~ KEEP THEN "closed" ELSE fileID

\* variant: the handle is closed whatever KEEP is
BeamClose_Always(fileID, KEEP) == "closed"

BeamClose(fileID, KEEP) == IF ~ KEEP THEN "closed" ELSE fileID

\* variant: the handle is closed when an error leaves the reader
GranuleRaise_Closes(fileID) == "closed"

\* the state in which an error leaves the handle: no handler closes it
GranuleRaise(fileID) == fileID
BeamRaise(fileID) == fileID

\* ------------------------------------------------------------------------
\* State
\* ------------------------------------------------------------------------
VARIABLES
    granule,    \* the contents of the ATL06 file being read
    handle,     \* the h5py.File the caller holds: "open" or "closed"
    ret         \* the latest call: its arguments and what came of it

vars == << granule, handle, ret >>

EmptyMap == {}

NoCall ==
    [ op |-> "none", FILENAME |-> "path", gtx |-> "",
      ATTRIBUTES |-> FALSE, HISTOGRAM |-> FALSE, QUALITY |-> FALSE,
      KEEP |-> FALSE, entered |-> "open",
      raised |-> "none", fileID |-> "closed",
      IS2_atl06_mds |-> EmptyMap, IS2_atl06_attrs |-> EmptyMap,
      IS2_atl06_beams |-> << >> ]

Init ==
    /\ granule \in Granules
    /\ handle = "open"
    /\ ret = NoCall

\* h5py.File(FILENAME, 'r') for a stream or a path; FILENAME itself when
\* it is an h5py.File
GranuleOpen(FILENAME) == IF FILENAME = "handle" THEN handle ELSE "open"
FindBeamsOpen(FILENAME) == IF FILENAME = "handle" THEN handle ELSE "open"
BeamOpen(FILENAME) == IF FILENAME = "handle" THEN handle ELSE "open"

\* the caller's handle after a call that ended with its handle in state st
Caller(FILENAME, st) == IF FILENAME = "handle" THEN st ELSE handle

\* ------------------------------------------------------------------------
\* The three readers
\* ------------------------------------------------------------------------
read_granule(FILENAME, ATTRIBUTES, HISTOGRAM, QUALITY, KEEP) ==
    LET fileID == GranuleOpen(FILENAME)
        raised == IF fileID = "closed" THEN "ValueError"
                  ELSE IF GranuleFails(granule, HISTOGRAM, QUALITY)
                       THEN "KeyError"
                       ELSE "none"
        after == IF raised = "none" THEN GranuleClose(fileID, KEEP)
                 ELSE GranuleRaise(fileID)
    IN  /\ ret' = [ op |-> "read_granule", FILENAME |-> FILENAME, gtx |-> "",
                    ATTRIBUTES |-> ATTRIBUTES, HISTOGRAM |-> HISTOGRAM,
                    QUALITY |-> QUALITY, KEEP |-> KEEP,
                    entered |-> fileID,
                    raised |-> raised, fileID |-> after,
                    IS2_atl06_mds |->
                        IF raised = "none"
                        THEN GranuleVars(granule, HISTOGRAM, QUALITY)
                        ELSE EmptyMap,
                    IS2_atl06_attrs |->
                        IF raised = "none"
                        THEN GranuleAttrs(granule, ATTRIBUTES, HISTOGRAM, QUALITY)
                        ELSE EmptyMap,
                    IS2_atl06_beams |->
                        IF raised = "none" THEN GranuleBeams(granule)
                        ELSE << >> ]
        /\ handle' = Caller(FILENAME, after)
        /\ UNCHANGED granule

find_beams(FILENAME, KEEP) ==
    LET fileID == FindBeamsOpen(FILENAME)
        raised == IF fileID = "closed" THEN "ValueError" ELSE "none"
        after == IF raised = "none" THEN FindBeamsClose(fileID, KEEP)
                 ELSE fileID
    IN  /\ ret' = [ op |-> "find_beams", FILENAME |-> FILENAME, gtx |-> "",
                    ATTRIBUTES |-> FALSE, HISTOGRAM |-> FALSE,
                    QUALITY |-> FALSE, KEEP |-> KEEP,
                    entered |-> fileID,
                    raised |-> raised, fileID |-> after,
                    IS2_atl06_mds |-> EmptyMap,
                    IS2_atl06_attrs |-> EmptyMap,
                    IS2_atl06_beams |->
                        IF raised = "none" THEN FindBeamsList(granule)
                        ELSE << >> ]
        /\ handle' = Caller(FILENAME, after)
        /\ UNCHANGED granule

read_beam(FILENAME, gtx, ATTRIBUTES, KEEP) ==
    LET fileID == BeamOpen(FILENAME)
        raised == IF fileID = "closed" THEN "ValueError"
                  ELSE IF BeamFails(granule, gtx) THEN "KeyError"
                       ELSE "none"
        after == IF raised = "none" THEN BeamClose(fileID, KEEP)
                 ELSE BeamRaise(fileID)
    IN  /\ ret' = [ op |-> "read_beam", FILENAME |-> FILENAME, gtx |-> gtx,
                    ATTRIBUTES |-> ATTRIBUTES, HISTOGRAM |-> FALSE,
                    QUALITY |-> FALSE, KEEP |-> KEEP,
                    entered |-> fileID,
                    raised |-> raised, fileID |-> after,
                    IS2_atl06_mds |->
                        IF raised = "none" THEN BeamVars(granule, gtx)
                        ELSE EmptyMap,
                    IS2_atl06_attrs |->
                        IF raised = "none"
                        THEN BeamAttrs(granule, gtx, ATTRIBUTES)
                        ELSE EmptyMap,
                    IS2_atl06_beams |-> << >> ]
        /\ handle' = Caller(FILENAME, after)
        /\ UNCHANGED granule

Next ==
    \/ \E FILENAME \in GranuleSources, ATTRIBUTES \in BOOLEAN,
          HISTOGRAM \in BOOLEAN, QUALITY \in BOOLEAN, KEEP \in BOOLEAN :
          read_granule(FILENAME, ATTRIBUTES, HISTOGRAM, QUALITY, KEEP)
    \/ \E FILENAME \in Sources, KEEP \in BOOLEAN :
          find_beams(FILENAME, KEEP)
    \/ \E FILENAME \in Sources, gtx \in BeamArgs, ATTRIBUTES \in BOOLEAN,
          KEEP \in BOOLEAN :
          read_beam(FILENAME, gtx, ATTRIBUTES, KEEP)

Spec == Init /\ [][Next]_vars

\* ------------------------------------------------------------------------
\* Vocabulary of the properties
\* ------------------------------------------------------------------------
\* the key paths of a returned dictionary
Keys(m) == { e[1] : e \in m }

\* the six beams of an ATL06 granule
SixBeams == {"gt1l", "gt1r", "gt2l", "gt2r", "gt3l", "gt3r"}

\* a valid beam of the granule: one of the six names, holding
\* land_ice_segments/segment_id
ValidBeam(k) ==
    /\ k \in SixBeams
    /\ Has(granule, << k, "land_ice_segments", "segment_id" >>)

\* position of k in fileID.keys()
PosOf(k) == CHOOSE i \in DOMAIN granule.order : granule.order[i] = k

Returned == ret.op # "none" /\ ret.raised = "none"

\* the part of dictionary m below path p
Below(m, p) ==
    { e \in m : Len(e[1]) >= Len(p) /\ SubSeq(e[1], 1, Len(p)) = p }

\* ------------------------------------------------------------------------
\* C1
\* ------------------------------------------------------------------------
\* C1: find_beams returns exactly the valid beams of the granule (named by
\* the beam pattern and holding land_ice_segments/segment_id), each once,
\* in the order the file enumerates its top-level groups, and none of the
\* other top-level groups.
C1_FindBeamsExact ==
    (ret.op = "find_beams" /\ ret.raised = "none") =>
        LET b == ret.IS2_atl06_beams
        IN  /\ Range(b) = { k \in Range(granule.order) : ValidBeam(k) }
            /\ \A i, j \in DOMAIN b : i < j => PosOf(b[i]) < PosOf(b[j])

\* find_beams returned one valid beam and left out the beam-like group
\* enumerated before it
C1_Witness ==
    /\ ret.op = "find_beams"
    /\ ret.raised = "none"
    /\ Len(ret.IS2_atl06_beams) = 1
    /\ Len(granule.order) >= 2
    /\ granule.order[2] = ret.IS2_atl06_beams[1]
    /\ granule.order[1] \in TopNames

\* ------------------------------------------------------------------------
\* C2
\* ------------------------------------------------------------------------
\* C2: a call that returns with KEEP=True leaves its handle open, and a
\* following call on that handle does not fail for a closed file (the same
\* request again, and find_beams, return); a call that returns with
\* KEEP=False leaves its handle closed, and every following call on that
\* handle raises.
C2_Step ==
    /\ (ret'.op # "none" /\ ret'.raised = "none") =>
          (ret'.fileID = (IF ret'.KEEP THEN "open" ELSE "closed"))
    /\ (Returned /\ ret.FILENAME = "handle" /\ ret'.FILENAME = "handle") =>
          IF ret.KEEP
          THEN /\ ret'.raised # "ValueError"
               /\ ret'.op = "find_beams" => ret'.raised = "none"
               /\ ( /\ ret'.op = ret.op
                    /\ ret'.gtx = ret.gtx
                    /\ ret'.HISTOGRAM = ret.HISTOGRAM
                    /\ ret'.QUALITY = ret.QUALITY ) => ret'.raised = "none"
          ELSE ret'.raised = "ValueError"

C2_KeepOrClose == [][C2_Step]_vars

\* a call on the caller's handle raised because an earlier call, returning
\* with KEEP off, had closed it
C2_Witness ==
    /\ ret.op = "read_granule"
    /\ ret.FILENAME = "handle"
    /\ ret.entered = "closed"
    /\ ret.raised = "ValueError"
    /\ handle = "closed"

\* ------------------------------------------------------------------------
\* C3
\* ------------------------------------------------------------------------
\* C3 as stated: when an operation returns, a handle it opened itself is
\* closed and a handle the caller supplied open is open.
C3_OwnedClosedBorrowedOpen ==
    Returned =>
        IF ret.FILENAME = "handle"
        THEN ret.fileID = "open" /\ handle = "open"
        ELSE ret.fileID = "closed"

\* C3: when an operation returns, KEEP alone decides the handle's fate: a
\* handle the operation opened itself is closed unless KEEP is set, and a
\* handle the caller supplied is left open only if KEEP is set and is
\* closed otherwise.
C3_KeepDecides ==
    Returned =>
        IF ret.FILENAME = "handle"
        THEN /\ ret.entered = "open"
             /\ handle = ret.fileID
             /\ (handle = "open") = ret.KEEP
        ELSE (ret.fileID = "closed") = ~ ret.KEEP

\* read_beam closed the handle its caller supplied
C3_Witness ==
    /\ ret.op = "read_beam"
    /\ ret.FILENAME = "handle"
    /\ ret.raised = "none"
    /\ ~ ret.KEEP
    /\ handle = "closed"

\* ------------------------------------------------------------------------
\* C4
\* ------------------------------------------------------------------------
\* the dictionaries right below path p of dictionary m
SubDicts(m, p) ==
    { e[1][Len(p) + 1] : e \in { x \in m : /\ Len(x[1]) = Len(p) + 1
                                            /\ SubSeq(x[1], 1, Len(p)) = p
                                            /\ x[2] = Dict } }

\* the keys right below path p of dictionary m
SubKeys(m, p) ==
    { q[Len(p) + 1] : q \in { x \in Keys(m) : /\ Len(x) = Len(p) + 1
                                               /\ SubSeq(x, 1, Len(p)) = p } }

\* C4: read_granule with ATTRIBUTES, HISTOGRAM and QUALITY off returns
\* variables in which every beam has land_ice_segments as its only key,
\* with exactly the five fixed subgroups under it.
C4_FiveSubgroups ==
    ( /\ ret.op = "read_granule"
      /\ ret.raised = "none"
      /\ ~ ret.ATTRIBUTES /\ ~ ret.HISTOGRAM /\ ~ ret.QUALITY ) =>
        \A gtx \in Range(ret.IS2_atl06_beams) :
            /\ SubKeys(ret.IS2_atl06_mds, << gtx >>) = {"land_ice_segments"}
            /\ SubDicts(ret.IS2_atl06_mds, << gtx, "land_ice_segments" >>)
                 = FixedSubgroups

\* read_granule with the flags off returned a beam whose file group lacks
\* dem and holds residual_histogram
C4_Witness ==
    /\ ret.op = "read_granule"
    /\ ret.raised = "none"
    /\ ~ ret.ATTRIBUTES /\ ~ ret.HISTOGRAM /\ ~ ret.QUALITY
    /\ \E gtx \in Range(ret.IS2_atl06_beams) :
          /\ Has(granule, << gtx, "residual_histogram" >>)
          /\ ~ Has(granule, << gtx, "land_ice_segments", "dem" >>)

\* ------------------------------------------------------------------------
\* C5
\* ------------------------------------------------------------------------
\* C5: read_granule with ATTRIBUTES set returns attributes holding a
\* dictionary at every key path of the variables, and no key of the
\* attributes, at any depth, is DIMENSION_LIST, CLASS or NAME.
C5_AttrsMirror ==
    (ret.op = "read_granule" /\ ret.raised = "none" /\ ret.ATTRIBUTES) =>
        /\ \A p \in Keys(ret.IS2_atl06_mds) :
              << p, Dict >> \in ret.IS2_atl06_attrs
        /\ \A p \in Keys(ret.IS2_atl06_attrs) :
              \A i \in DOMAIN p : p[i] \notin {"DIMENSION_LIST", "CLASS", "NAME"}

\* read_granule returned the attributes of a beam with its optional groups
C5_Witness ==
    /\ ret.op = "read_granule"
    /\ ret.raised = "none"
    /\ ret.ATTRIBUTES /\ ret.HISTOGRAM /\ ret.QUALITY
    /\ ret.IS2_atl06_beams # << >>
    /\ \E e \in ret.IS2_atl06_attrs : e[2].kind = "attr" /\ Len(e[1]) = 5

\* ------------------------------------------------------------------------
\* C6
\* ------------------------------------------------------------------------
\* C6: when gt1l is a valid beam and read_granule of the file returns,
\* read_beam(file, 'gt1l') returns under gt1l/land_ice_segments exactly
\* what read_granule(file) returns there: the same keys, nesting and
\* values.
C6_BeamEqualsGranuleSlice ==
    ( /\ ret.op = "read_beam"
      /\ ret.gtx = "gt1l"
      /\ ret.raised = "none"
      /\ ValidBeam("gt1l")
      /\ ~ GranuleFails(granule, FALSE, FALSE) ) =>
        Below(ret.IS2_atl06_mds, << "gt1l", "land_ice_segments" >>)
          = Below(GranuleVars(granule, FALSE, FALSE),
                  << "gt1l", "land_ice_segments" >>)

\* read_beam returned the variables of the valid beam gt1l of a granule
\* that read_granule reads, with subgroup variables among them
C6_Witness ==
    /\ ret.op = "read_beam"
    /\ ret.gtx = "gt1l"
    /\ ret.raised = "none"
    /\ ValidBeam("gt1l")
    /\ ~ GranuleFails(granule, FALSE, FALSE)
    /\ \E e \in ret.IS2_atl06_mds : Len(e[1]) = 4 /\ e[2].kind = "array"

\* ------------------------------------------------------------------------
\* C7
\* ------------------------------------------------------------------------
\* C7 as stated: read_granule and read_beam with ATTRIBUTES off return an
\* attribute mapping with no entries.
C7_NoEntries ==
    ( /\ ret.op \in {"read_granule", "read_beam"}
      /\ ret.raised = "none"
      /\ ~ ret.ATTRIBUTES ) => ret.IS2_atl06_attrs = {}

\* C7: with ATTRIBUTES off read_beam returns an attribute mapping with no
\* entries, and read_granule returns one that holds no attribute: only
\* the empty dictionary ancillary_data with the empty dictionary land_ice
\* in it.
C7_NoAttributes ==
    ( /\ ret.op \in {"read_granule", "read_beam"}
      /\ ret.raised = "none"
      /\ ~ ret.ATTRIBUTES ) =>
        IF ret.op = "read_beam"
        THEN ret.IS2_atl06_attrs = {}
        ELSE ret.IS2_atl06_attrs =
                { << << "ancillary_data" >>, Dict >>,
                  << << "ancillary_data", "land_ice" >>, Dict >> }

\* read_granule returned with ATTRIBUTES off from a granule with a valid
\* beam
C7_Witness ==
    /\ ret.op = "read_granule"
    /\ ret.raised = "none"
    /\ ~ ret.ATTRIBUTES
    /\ ret.IS2_atl06_beams # << >>
    /\ ret.IS2_atl06_attrs # {}

\* ------------------------------------------------------------------------
\* C8
\* ------------------------------------------------------------------------
\* the beams a call reads: the valid beams for read_granule, its argument
\* for read_beam
BeamsRead ==
    IF ret.op = "read_granule" THEN Range(ret.IS2_atl06_beams)
    ELSE IF ret.op = "read_beam" THEN {ret.gtx}
    ELSE {}

\* C8 as stated, for the five subgroups of a call that returns: a subgroup
\* that the file does not hold for a beam has no key in that beam's entry.
C8_AbsentMeansNoKey ==
    Returned =>
        \A gtx \in BeamsRead : \A s \in FixedSubgroups :
            LET p == << gtx, "land_ice_segments", s >>
            IN  ~ Has(granule, p) =>
                    p \notin Keys(ret.IS2_atl06_mds)

\* C8: one of the five fixed subgroups that the file does not hold for a
\* beam is left in that beam's entry as an empty dictionary and its
\* absence raises no error (read_granule with HISTOGRAM and QUALITY off
\* returns from a granule that holds orbit_info and no unknown subgroup);
\* a beam-like group without land_ice_segments/segment_id has no key in
\* read_granule's output; an absent residual_histogram or segment_quality
\* whose flag is set raises KeyError.
C8_AbsentSubgroupIsEmpty ==
    /\ Returned =>
          \A gtx \in BeamsRead : \A s \in FixedSubgroups :
              LET p == << gtx, "land_ice_segments", s >>
              IN  ~ Has(granule, p) =>
                      Below(ret.IS2_atl06_mds, p) = { << p, Dict >> }
    /\ ( /\ ret.op = "read_granule"
         /\ ret.entered = "open"
         /\ ~ ret.HISTOGRAM /\ ~ ret.QUALITY
         /\ Has(granule, << "orbit_info" >>)
         /\ \A k \in Range(granule.order) :
               ValidBeam(k) =>
                  ~ Has(granule, << k, "land_ice_segments", "other" >>) ) => ret.raised = "none"
    /\ (ret.op = "read_granule" /\ ret.raised = "none") =>
          \A k \in TopNames :
              ~ ValidBeam(k) => Below(ret.IS2_atl06_mds, << k >>) = {}
    /\ ( /\ ret.op = "read_granule"
         /\ ret.entered = "open"
         /\ \E k \in Range(granule.order) :
               /\ ValidBeam(k)
               /\ \/ ret.HISTOGRAM /\ ~ Has(granule, << k, "residual_histogram" >>)
                  \/ ret.QUALITY /\ ~ Has(granule, << k, "segment_quality" >>) )
          => ret.raised = "KeyError"

\* read_beam returned a beam whose file group lacks dem, with the empty
\* dictionary dem in its entry
C8_Witness ==
    /\ ret.op = "read_beam"
    /\ ret.raised = "none"
    /\ ~ Has(granule, << ret.gtx, "land_ice_segments", "dem" >>)
    /\ Has(granule, << ret.gtx, "land_ice_segments", "geophysical" >>)
    /\ << << ret.gtx, "land_ice_segments", "dem" >>, Dict >>
          \in ret.IS2_atl06_mds

\* ------------------------------------------------------------------------
\* C9
\* ------------------------------------------------------------------------
\* C9: read_beam on an open file, given a beam that the file does not hold
\* or that holds no land_ice_segments, raises KeyError and returns no
\* dictionaries.
C9_AbsentBeamRaises ==
    ( /\ ret.op = "read_beam"
      /\ ret.entered = "open"
      /\ \/ ~ Has(granule, << ret.gtx >>)
         \/ ~ Has(granule, << ret.gtx, "land_ice_segments" >>) ) =>
        /\ ret.raised = "KeyError"
        /\ ret.IS2_atl06_mds = {}
        /\ ret.IS2_atl06_attrs = {}

\* read_beam raised on a beam group that holds no land_ice_segments
C9_Witness ==
    /\ ret.op = "read_beam"
    /\ ret.entered = "open"
    /\ ret.raised = "KeyError"
    /\ Has(granule, << ret.gtx >>)
    /\ ~ Has(granule, << ret.gtx, "land_ice_segments" >>)

\* ------------------------------------------------------------------------
\* C10
\* ------------------------------------------------------------------------
\* C10: when read_granule or read_beam raises after its handle was open,
\* the handle is still open, whatever KEEP is and whether the operation
\* opened the handle or the caller supplied it.
C10_OpenAfterError ==
    ( /\ ret.op \in {"read_granule", "read_beam"}
      /\ ret.raised # "none"
      /\ ret.entered = "open" ) =>
        /\ ret.fileID = "open"
        /\ ret.FILENAME = "handle" => handle = "open"

\* read_granule with HISTOGRAM set and KEEP off raised on a beam without
\* residual_histogram, on a handle it had opened itself
C10_Witness ==
    /\ ret.op = "read_granule"
    /\ ret.raised = "KeyError"
    /\ ret.HISTOGRAM
    /\ ~ ret.KEEP
    /\ ret.FILENAME = "path"
    /\ ret.fileID = "open"
    /\ Has(granule, << "orbit_info" >>)
    /\ \A k \in Range(granule.order) :
          ~ Has(granule, << k, "land_ice_segments", "other" >>)

====
